---- MODULE Spec2Model ----
(***************************************************************************)
(* Catch-up sequencing (NodeLeecherService) and new-view construction of  *)
(* indy-plenum, as state machines.                                         *)
(*                                                                         *)
(* Python values are encoded as follows.                                   *)
(*   - Optional[int] ledger ids: the integer None (-1) stands for None.    *)
(*   - A value of a ledgerRoot map (None, a str hash, or an int           *)
(*     back-reference) is a record [t, v]: t is "none", "str" or "int";    *)
(*     for "str" v is the code of an opaque hash string, for "int" v is   *)
(*     the integer itself.                                                 *)
(*   - dicts keyed by ledger id are total functions over LedgerIds whose  *)
(*     absent keys map to an "absent" value (dict.get returns None).       *)
(*   - dict iteration order (insertion order) is kept by sequences.        *)
(***************************************************************************)
EXTENDS Integers, Sequences, FiniteSets, TLC

\* plenum.common.constants
POOL_LEDGER_ID == 0
AUDIT_LEDGER_ID == 3

\* Python None where an int is expected (Optional[int])
None == -1

(***************************************************************************)
(* Bounds                                                                  *)
(***************************************************************************)
\* ledger ids are 0..MaxLedgerId
MaxLedgerId == 3
\* ledger sizes (local and in audit transactions) are 0..MaxSize
MaxSize == 1
\* literal hashes found in audit transactions are 1..NumHashes
NumHashes == 1
\* an audit transaction's ledgerSize map has at most MaxTxnLedgers keys
MaxTxnLedgers == 2
\* length of the audit ledger seen by the catch-up state machine
MaxAuditLen == 1
\* length of the audit ledgers target derivation is applied to on its own
MaxCalcAudit == 3
\* literal hashes in those audit ledgers are 1..NumCalcHashes
NumCalcHashes == 2

LedgerIds == 0..MaxLedgerId

(***************************************************************************)
(* Values                                                                  *)
(***************************************************************************)
NoneV == [t |-> "none", v |-> 0]
StrV(h) == [t |-> "str", v |-> h]
IntV(k) == [t |-> "int", v |-> k]

\* Ledger.hashToStr(ledger.tree.merkle_tree_hash(0, n)) of the local ledger
\* ledger_id: an opaque string, distinct from the literal hashes (codes below
\* 1000) and from the root of any other ledger or prefix.
merkle_tree_hash(ledger_id, n) == StrV(1000 + 100 * ledger_id + n)

CatchupTill(start_size, final_size, final_hash, view_no, pp_seq_no) ==
    [start_size |-> start_size, final_size |-> final_size,
     final_hash |-> final_hash, view_no |-> view_no, pp_seq_no |-> pp_seq_no]

\* dict.get(ledger_id) of a key that is not in _catchup_till; also "no till"
NoTill == CatchupTill(-1, -1, NoneV, -1, -1)

\* a LedgerLeecherService after reset()
LeecherReset == [active |-> FALSE, request_ledger_statuses |-> FALSE, till |-> NoTill]

(***************************************************************************)
(* The CatchupDataProvider as read by _calc_catchup_till: the audit ledger *)
(* (a sequence of audit transactions, the last one being the last          *)
(* committed) and the sizes of the local ledgers.                          *)
(***************************************************************************)
RootVals(nh, maxk) ==
    {NoneV} \cup {StrV(h) : h \in 1..nh} \cup {IntV(k) : k \in 0..maxk}

\* the (ledger_id, final_size) items of a ledgerSize map, in dict order
LedgerSizeItems(ids) ==
    UNION {{s \in [1..k -> ids \X (0..MaxSize)] :
              \A i, j \in 1..k : i # j => s[i][1] # s[j][1]} :
           k \in 0..MaxTxnLedgers}

Keys(items) == {items[i][1] : i \in 1..Len(items)}

\* audit transactions whose maps mention only the ledgers in ids
AuditTxns(ids, nh, maxk) ==
    {[viewNo |-> 0, ppSeqNo |-> 0, ledgerSize |-> ls, ledgerRoot |-> lr] :
        ls \in LedgerSizeItems(ids),
        lr \in {f \in [LedgerIds -> RootVals(nh, maxk)] :
                   \A l \in LedgerIds \ ids : f[l] = NoneV}}

\* the audit ledger holding the transactions txns: the batch of the
\* transaction with sequence number i has ppSeqNo i
AuditLedger(txns) == [i \in 1..Len(txns) |-> [txns[i] EXCEPT !.ppSeqNo = i]]

\* only the roots of the listed ledgers are read when the ledger holds one txn
LastTxns ==
    {t \in AuditTxns(LedgerIds, NumHashes, MaxAuditLen) :
        \A l \in LedgerIds \ Keys(t.ledgerSize) : t.ledgerRoot[l] = NoneV}

\* sizes of the local ledgers; only those of the ledgers in ids are read
\* (the size of the audit ledger is the length of audit)
LocalSizes(ids) ==
    {f \in [LedgerIds -> 0..MaxSize] :
        \A l \in LedgerIds \ (ids \ {AUDIT_LEDGER_ID}) : f[l] = 0}

\* what the state machine may find when the audit ledger has been synced
Providers ==
    {[audit |-> <<>>, size |-> [l \in LedgerIds |-> 0]]}
    \cup UNION {{[audit |-> AuditLedger(<<t>>), size |-> sz] :
                    sz \in LocalSizes(Keys(t.ledgerSize))} : t \in LastTxns}

\* audit transactions that concern the ledger l alone
SingleTxns(l) ==
    {[viewNo |-> 0, ppSeqNo |-> 0, ledgerSize |-> ls,
      ledgerRoot |-> [x \in LedgerIds |-> IF x = l THEN r ELSE NoneV]] :
        ls \in {<<>>} \cup {<<(<<l, n>>)>> : n \in 0..MaxSize},
        r \in RootVals(NumCalcHashes, MaxCalcAudit)}

\* p is an audit ledger of up to MaxCalcAudit transactions that all concern
\* one ledger, with the local size of that ledger
IsDeepProvider(p) ==
    \E l \in LedgerIds, n \in 1..MaxCalcAudit :
        \E txns \in [1..n -> SingleTxns(l)], sz \in LocalSizes({l}) :
            p = [audit |-> AuditLedger(txns), size |-> sz]

NoProvider == [audit |-> <<>>, size |-> [l \in LedgerIds |-> 0]]

\* provider.ledger(ledger_id).size
ledger_size(p, ledger_id) ==
    IF ledger_id = AUDIT_LEDGER_ID THEN Len(p.audit) ELSE p.size[ledger_id]

\* audit_ledger.getBySeqNo(seq_no): None (here <<>>-less: a flag) when missing
HasSeqNo(p, seq_no) == seq_no \in 1..Len(p.audit)

(***************************************************************************)
(* View change: batches, votes, checkpoints, quorums                       *)
(***************************************************************************)
\* pp_seq_no of the batches in the votes are 1..MaxPpSeqNo
MaxPpSeqNo == 2
\* digests of the batches are 1..NumDigests
NumDigests == 2
\* checkpoints end at 0..MaxCheckpoint
MaxCheckpoint == 1

\* validators of the pool, and the faults it tolerates: N = 3F + 1
NumNodes == 4
NumFaulty == (NumNodes - 1) \div 3
\* strong quorum, 2F + 1
Strong == 2 * NumFaulty + 1

\* BatchID(view_no, pp_view_no, pp_seq_no, pp_digest): pp[2] is pp_seq_no
BatchID(view_no, pp_view_no, pp_seq_no, pp_digest) ==
    [view_no |-> view_no, pp_view_no |-> pp_view_no, pp_seq_no |-> pp_seq_no,
     pp_digest |-> pp_digest]

\* Python None where a BatchID is expected
NoBatch == BatchID(-1, -1, -1, -1)

Checkpoint(seqNoEnd) == [seqNoStart |-> 0, seqNoEnd |-> seqNoEnd, digest |-> seqNoEnd]

\* Python None where a Checkpoint is expected
NoCheckpoint == [seqNoStart |-> -1, seqNoEnd |-> -1, digest |-> -1]

Checkpoints == {Checkpoint(e) : e \in 0..MaxCheckpoint}

Range(seq) == {seq[i] : i \in 1..Len(seq)}

\* the batches of view 0 that c picks: the one with digest c[n] at pp_seq_no
\* n, none where c[n] = 0; in pp_seq_no order
PickedBatches(c) ==
    SelectSeq([n \in 1..MaxPpSeqNo |-> BatchID(0, 0, n, c[n])],
              LAMBDA b : b.pp_digest # 0)

Picks == [1..MaxPpSeqNo -> 0..NumDigests]

\* synthetic votes: any preprepared sequence with at most one batch at a
\* pp_seq_no, any prepared set with at most one batch at a pp_seq_no
SyntheticVotes ==
    {[preprepared |-> PickedBatches(c), prepared |-> Range(PickedBatches(d)),
      checkpoints |-> {Checkpoint(0)}] : c \in Picks, d \in Picks}

\* votes of the nodes of a pool: a node has prepared only batches it has
\* preprepared, and holds the checkpoints up to some end (or none)
PoolVotes ==
    UNION {{[preprepared |-> PickedBatches(c), prepared |-> pr,
             checkpoints |-> {Checkpoint(e) : e \in 0..top}] :
               pr \in SUBSET Range(PickedBatches(c)), top \in -1..MaxCheckpoint} :
           c \in Picks}

NoNewView ==
    [done |-> FALSE, checkpoint |-> NoCheckpoint, batches |-> <<>>,
     committed |-> <<>>, assert_failed |-> FALSE]

(***************************************************************************)
(* NewViewBuilder                                                          *)
(***************************************************************************)
\* the number of the votes vcs that hold checkpoint cp
NumHolding(vcs, cp) == Cardinality({i \in 1..Len(vcs) : cp \in vcs[i].checkpoints})

\* the number of the votes vcs that have b in preprepared
NumPreprepared(vcs, b) ==
    Cardinality({i \in 1..Len(vcs) : b \in Range(vcs[i].preprepared)})

\* the number of the votes vcs that have b in prepared
NumPrepared(vcs, b) == Cardinality({i \in 1..Len(vcs) : b \in vcs[i].prepared})

\* the highest checkpoint a strong quorum of the votes hold
calc_checkpoint(vcs) ==
    LET agreed == {cp \in UNION {vcs[i].checkpoints : i \in 1..Len(vcs)} :
                     NumHolding(vcs, cp) >= Strong}
    IN IF agreed = {} THEN NoCheckpoint
       ELSE CHOOSE cp \in agreed : \A other \in agreed : other.seqNoEnd <= cp.seqNoEnd

\* the batches at pp_seq_no that a strong quorum of the votes have in
\* preprepared, prepared by a quorum or not
PrepreparedAt(vcs, pp_seq_no) ==
    {b \in UNION {Range(vcs[i].preprepared) : i \in 1..Len(vcs)} :
        /\ b.pp_seq_no = pp_seq_no
        /\ NumPreprepared(vcs, b) >= Strong}

\* the batches at pp_seq_no that a strong quorum of the votes have in
\* preprepared and a strong quorum of the votes have in prepared
CertifiedAt(vcs, pp_seq_no) ==
    {b \in UNION {Range(vcs[i].preprepared) : i \in 1..Len(vcs)} :
        /\ b.pp_seq_no = pp_seq_no
        /\ NumPreprepared(vcs, b) >= Strong
        /\ NumPrepared(vcs, b) >= Strong}

RECURSIVE batches_from(_, _)
batches_from(vcs, pp_seq_no) ==
    LET found == CertifiedAt(vcs, pp_seq_no)
    IN IF found = {} THEN <<>>
       ELSE <<CHOOSE b \in found : TRUE>> \o batches_from(vcs, pp_seq_no + 1)

\* from cp.seqNoEnd + 1 on, the batch certified at each pp_seq_no, up to the
\* first pp_seq_no that has none
calc_batches(cp, vcs) == batches_from(vcs, cp.seqNoEnd + 1)

(***************************************************************************)
(* test_sim_view_change.calc_committed                                     *)
(***************************************************************************)
\* the first pp of preprepared with pp[2] == pp_seq_no; NoBatch if none
first_at(preprepared, pp_seq_no) ==
    LET at == {i \in 1..Len(preprepared) : preprepared[i].pp_seq_no = pp_seq_no}
    IN IF at = {} THEN NoBatch
       ELSE preprepared[CHOOSE i \in at : \A j \in at : i <= j]

\* batch_id in vc.preprepared
in_preprepared(batch_id, vc) == batch_id \in Range(vc.preprepared)

\* batch_id in vc.prepared
in_prepared(batch_id, vc) == batch_id \in vc.prepared

\* the loop over view_changes for one pp_seq_no, from vote j on:
\* "assert" when the assertion fails, "return" when the function returns,
\* "append" (with the batch) when the loop ends
RECURSIVE scan_votes(_, _, _, _)
scan_votes(view_changes, pp_seq_no, j, batch_id) ==
    IF j > Len(view_changes) THEN [status |-> "append", batch_id |-> batch_id]
    ELSE LET vc == view_changes[j]
             pp == first_at(vc.preprepared, pp_seq_no)
             batch_id1 == IF pp # NoBatch /\ batch_id = NoBatch THEN pp ELSE batch_id
         IN IF pp # NoBatch /\ batch_id1 # pp
            THEN [status |-> "assert", batch_id |-> batch_id1]
            ELSE IF ~in_prepared(batch_id1, vc)
            THEN [status |-> "return", batch_id |-> batch_id1]
            ELSE scan_votes(view_changes, pp_seq_no, j + 1, batch_id1)

RECURSIVE committed_from(_, _, _)
committed_from(view_changes, pp_seq_no, committed) ==
    IF pp_seq_no >= 50 THEN [committed |-> committed, assert_failed |-> FALSE]
    ELSE LET r == scan_votes(view_changes, pp_seq_no, 1, NoBatch)
         IN IF r.status = "assert"
            THEN [committed |-> committed, assert_failed |-> TRUE]
            ELSE IF r.status = "return"
            THEN [committed |-> committed, assert_failed |-> FALSE]
            ELSE committed_from(view_changes, pp_seq_no + 1,
                                Append(committed, r.batch_id))

calc_committed(view_changes) == committed_from(view_changes, 1, <<>>)

\* batches[:n]
Slice(batches, n) ==
    SubSeq(batches, 1, IF n < Len(batches) THEN n ELSE Len(batches))

(***************************************************************************)
(* State                                                                   *)
(***************************************************************************)
VARIABLES
    _leechers,        \* keys of self._leechers, in registration order
    leecher,          \* the LedgerLeecherService of each ledger id
    _state,           \* self._state
    _catchup_till,    \* self._catchup_till
    _current_ledger,  \* self._current_ledger
    started,          \* leecher.start calls since the last start(), in order
    accepted,         \* ledger ids whose completion was accepted since the last start()
    derived,          \* ledger ids whose CatchupTill was written since the last start()
    ncc,              \* NodeCatchupComplete messages put on output since the last start()
    halted,           \* _calc_catchup_till has raised since the last start()
    audit_size,       \* size of the audit ledger when _on_audit_synced read it, since the last start()
    last,             \* the last operation and its argument
    provider,         \* the provider a target derivation is applied to (CalcSpec)
    votes,            \* the ViewChange votes handed to the NewViewBuilder
    new_view          \* the checkpoint, batches and committed computed from votes

vars == <<_leechers, leecher, _state, _catchup_till, _current_ledger,
          started, accepted, derived, ncc, halted, audit_size, last, provider, votes, new_view>>

\* the variables of the catch-up state machine
leecher_vars == <<_leechers, leecher, _state, _catchup_till, _current_ledger,
                  started, accepted, derived, ncc, halted, audit_size, last, provider>>

\* the mutable fields of self as one record, threaded through the methods
self ==
    [state |-> _state, catchup_till |-> _catchup_till,
     current_ledger |-> _current_ledger, leecher |-> leecher,
     started |-> started, accepted |-> accepted, derived |-> derived,
     ncc |-> ncc, audit_size |-> audit_size, raised |-> FALSE]

Registered == {_leechers[i] : i \in 1..Len(_leechers)}

\* the ledgers whose leecher has been started and has not completed
Active == {l \in LedgerIds : leecher[l].active}

(***************************************************************************)
(* Methods                                                                 *)
(***************************************************************************)
\* LedgerLeecherService.start(request_ledger_statuses, till)
leecher_start(s, ledger_id, request_ledger_statuses, till) ==
    LET call == [ledger_id |-> ledger_id,
                 request_ledger_statuses |-> request_ledger_statuses,
                 till |-> till]
    IN [s EXCEPT !.leecher[ledger_id] =
                     [active |-> TRUE,
                      request_ledger_statuses |-> request_ledger_statuses,
                      till |-> till],
                 !.started = Append(@, call)]

\* _catchup_ledger that never passes the target
_catchup_ledger_no_till(s, ledger_id) ==
    leecher_start(s, ledger_id, TRUE, NoTill)

\* _catchup_ledger that never asks for ledger statuses
_catchup_ledger_no_statuses(s, ledger_id) ==
    leecher_start(s, ledger_id, FALSE, s.catchup_till[ledger_id])

_catchup_ledger(s, ledger_id) ==
    LET catchup_till == s.catchup_till[ledger_id]
    IN IF catchup_till = NoTill
       THEN leecher_start(s, ledger_id, TRUE, NoTill)
       ELSE leecher_start(s, ledger_id, FALSE, catchup_till)

\* list.index, 1-based
Index(seq, x) == CHOOSE i \in 1..Len(seq) : seq[i] = x

_get_next_ledger(keys, ledger_id) ==
    LET ledger_ids == SelectSeq(keys, LAMBDA x : x # AUDIT_LEDGER_ID /\ x # POOL_LEDGER_ID)
    IN IF Len(ledger_ids) = 0 THEN None
       ELSE IF ledger_id = None THEN ledger_ids[1]
       ELSE LET next_index == Index(ledger_ids, ledger_id) + 1
            IN IF next_index = Len(ledger_ids) + 1 THEN None
               ELSE ledger_ids[next_index]

\* _sync_next_ledger that does not go to Idle after the last ledger
_sync_next_ledger_no_idle(s, keys) ==
    LET next == _get_next_ledger(keys, s.current_ledger)
        s1 == [s EXCEPT !.current_ledger = next]
    IN IF next # None
       THEN _catchup_ledger(s1, next)
       ELSE s1

_sync_next_ledger(s, keys) ==
    LET next == _get_next_ledger(keys, s.current_ledger)
        s1 == [s EXCEPT !.current_ledger = next]
    IN IF next # None
       THEN _catchup_ledger(s1, next)
       ELSE [s1 EXCEPT !.state = "Idle", !.ncc = @ + 1]

\* calc_item reading the transaction one sequence number too far on
calc_item_off_by_one(p, txn, i) ==
    LET ledger_id == txn.ledgerSize[i][1]
        final_size == txn.ledgerSize[i][2]
        start_size == ledger_size(p, ledger_id)
        root == txn.ledgerRoot[ledger_id]
        raise1 == root = NoneV /\ final_size # ledger_size(p, ledger_id)
        hash1 == IF root = NoneV
                 THEN (IF final_size > 0
                       THEN merkle_tree_hash(ledger_id, final_size)
                       ELSE NoneV)
                 ELSE root
        seq_no == Len(p.audit) - hash1.v + 1
        raise2 == hash1.t = "int" /\ ~HasSeqNo(p, seq_no)
        hash2 == IF hash1.t = "int" /\ HasSeqNo(p, seq_no)
                 THEN p.audit[seq_no].ledgerRoot[ledger_id]
                 ELSE hash1
        raise3 == hash1.t = "int" /\ hash2.t # "str"
    IN [raised |-> raise1 \/ raise2 \/ raise3,
        till |-> CatchupTill(start_size, final_size, hash2, txn.viewNo, txn.ppSeqNo)]

\* calc_item without the comparison of final_size with the size of the ledger
calc_item_no_size_check(p, txn, i) ==
    LET ledger_id == txn.ledgerSize[i][1]
        final_size == txn.ledgerSize[i][2]
        start_size == ledger_size(p, ledger_id)
        root == txn.ledgerRoot[ledger_id]
        hash1 == IF root = NoneV
                 THEN (IF final_size > 0
                       THEN merkle_tree_hash(ledger_id, final_size)
                       ELSE NoneV)
                 ELSE root
        seq_no == Len(p.audit) - hash1.v
        raise2 == hash1.t = "int" /\ ~HasSeqNo(p, seq_no)
        hash2 == IF hash1.t = "int" /\ HasSeqNo(p, seq_no)
                 THEN p.audit[seq_no].ledgerRoot[ledger_id]
                 ELSE hash1
        raise3 == hash1.t = "int" /\ hash2.t # "str"
    IN [raised |-> raise2 \/ raise3,
        till |-> CatchupTill(start_size, final_size, hash2, txn.viewNo, txn.ppSeqNo)]

\* One iteration of the loop of _calc_catchup_till, for item i of ledgerSize:
\* [raised, till]
calc_item(p, txn, i) ==
    LET ledger_id == txn.ledgerSize[i][1]
        final_size == txn.ledgerSize[i][2]
        start_size == ledger_size(p, ledger_id)
        root == txn.ledgerRoot[ledger_id]
        \* lines 155-158
        raise1 == root = NoneV /\ final_size # ledger_size(p, ledger_id)
        hash1 == IF root = NoneV
                 THEN (IF final_size > 0
                       THEN merkle_tree_hash(ledger_id, final_size)
                       ELSE NoneV)
                 ELSE root
        \* lines 160-167
        seq_no == Len(p.audit) - hash1.v
        raise2 == hash1.t = "int" /\ ~HasSeqNo(p, seq_no)
        hash2 == IF hash1.t = "int" /\ HasSeqNo(p, seq_no)
                 THEN p.audit[seq_no].ledgerRoot[ledger_id]
                 ELSE hash1
        raise3 == hash1.t = "int" /\ hash2.t # "str"
    IN [raised |-> raise1 \/ raise2 \/ raise3,
        till |-> CatchupTill(start_size, final_size, hash2, txn.viewNo, txn.ppSeqNo)]

RECURSIVE calc_loop(_, _, _, _)
calc_loop(s, p, txn, i) ==
    IF i > Len(txn.ledgerSize) THEN s
    ELSE LET r == calc_item(p, txn, i)
             ledger_id == txn.ledgerSize[i][1]
         IN IF r.raised THEN [s EXCEPT !.raised = TRUE]
            ELSE calc_loop([s EXCEPT !.catchup_till[ledger_id] = r.till,
                                     !.derived = @ \cup {ledger_id}],
                           p, txn, i + 1)

_calc_catchup_till(s, p) ==
    IF Len(p.audit) = 0 THEN s
    ELSE calc_loop(s, p, p.audit[Len(p.audit)], 1)

\* _on_audit_synced without the check of msg.ledger_id
_on_audit_synced_any(s, msg, p, keys) ==
    LET s1 == _calc_catchup_till([s EXCEPT !.accepted = @ \cup {msg.ledger_id},
                                           !.audit_size = Len(p.audit)], p)
    IN IF s1.raised THEN s1
       ELSE _catchup_ledger([s1 EXCEPT !.state = "SyncingPool"], POOL_LEDGER_ID)

\* _on_audit_synced that goes on after _calc_catchup_till has raised
_on_audit_synced_ignore_raise(s, msg, p, keys) ==
    IF msg.ledger_id # AUDIT_LEDGER_ID THEN s
    ELSE LET s1 == _calc_catchup_till([s EXCEPT !.accepted = @ \cup {msg.ledger_id},
                                                !.audit_size = Len(p.audit)], p)
         IN _catchup_ledger([s1 EXCEPT !.state = "SyncingPool"], POOL_LEDGER_ID)

_on_audit_synced(s, msg, p, keys) ==
    IF msg.ledger_id # AUDIT_LEDGER_ID THEN s
    ELSE LET s1 == _calc_catchup_till([s EXCEPT !.accepted = @ \cup {msg.ledger_id},
                                                !.audit_size = Len(p.audit)], p)
         IN IF s1.raised THEN s1
            ELSE _catchup_ledger([s1 EXCEPT !.state = "SyncingPool"], POOL_LEDGER_ID)

\* _on_pool_synced without the check of msg.ledger_id
_on_pool_synced_any(s, msg, keys) ==
    _sync_next_ledger([s EXCEPT !.state = "SyncingOthers",
                                !.accepted = @ \cup {msg.ledger_id}], keys)

_on_pool_synced(s, msg, keys) ==
    IF msg.ledger_id # POOL_LEDGER_ID THEN s
    ELSE _sync_next_ledger([s EXCEPT !.state = "SyncingOthers",
                                     !.accepted = @ \cup {msg.ledger_id}], keys)

\* _on_other_synced without the check of msg.ledger_id
_on_other_synced_any(s, msg, keys) ==
    _sync_next_ledger([s EXCEPT !.accepted = @ \cup {msg.ledger_id}], keys)

_on_other_synced(s, msg, keys) ==
    IF msg.ledger_id # s.current_ledger THEN s
    ELSE _sync_next_ledger([s EXCEPT !.accepted = @ \cup {msg.ledger_id}], keys)

dispatch(s, msg, p, keys) ==
    IF s.state = "SyncingAudit" THEN _on_audit_synced(s, msg, p, keys)
    ELSE IF s.state = "SyncingPool" THEN _on_pool_synced(s, msg, keys)
    ELSE IF s.state = "SyncingOthers" THEN _on_other_synced(s, msg, keys)
    ELSE s

\* the new value of every variable but _leechers and last, from the record
Assign(s) ==
    /\ leecher' = s.leecher
    /\ _state' = s.state
    /\ _catchup_till' = s.catchup_till
    /\ _current_ledger' = s.current_ledger
    /\ started' = s.started
    /\ accepted' = s.accepted
    /\ derived' = s.derived
    /\ ncc' = s.ncc
    /\ audit_size' = s.audit_size

(***************************************************************************)
(* Actions                                                                 *)
(***************************************************************************)
Init ==
    /\ _leechers = <<>>
    /\ leecher = [l \in LedgerIds |-> LeecherReset]
    /\ _state = "Idle"
    /\ _catchup_till = [l \in LedgerIds |-> NoTill]
    /\ _current_ledger = None
    /\ started = <<>>
    /\ accepted = {}
    /\ derived = {}
    /\ ncc = 0
    /\ halted = FALSE
    /\ audit_size = None
    /\ last = [op |-> "init", ledger_id |-> None, flag |-> FALSE, raised |-> FALSE]
    /\ provider = NoProvider
    /\ votes = <<>>
    /\ new_view = NoNewView

\* register_ledger is called before any start()
register_ledger(ledger_id) ==
    /\ last.op \in {"init", "register"}
    /\ _leechers' = IF ledger_id \in Registered THEN _leechers
                    ELSE Append(_leechers, ledger_id)
    /\ leecher' = [leecher EXCEPT ![ledger_id] = LeecherReset]
    /\ last' = [op |-> "register", ledger_id |-> ledger_id, flag |-> FALSE,
                raised |-> FALSE]
    /\ UNCHANGED <<_state, _catchup_till, _current_ledger, started, accepted,
                   derived, ncc, halted, audit_size, provider, votes, new_view>>

\* start without self._catchup_till.clear()
start_body_keep(s, request_ledger_statuses, keys) ==
    LET s1 == [s EXCEPT !.leecher = [l \in LedgerIds |->
                                        IF l \in keys THEN LeecherReset ELSE @[l]],
                        !.state = "SyncingAudit"]
    IN leecher_start(s1, AUDIT_LEDGER_ID, request_ledger_statuses, NoTill)

\* start without leecher.reset()
start_body_no_reset(s, request_ledger_statuses, keys) ==
    LET s1 == [s EXCEPT !.state = "SyncingAudit",
                        !.catchup_till = [l \in LedgerIds |-> NoTill]]
    IN leecher_start(s1, AUDIT_LEDGER_ID, request_ledger_statuses, NoTill)

start_body(s, request_ledger_statuses, keys) ==
    LET s1 == [s EXCEPT !.leecher = [l \in LedgerIds |->
                                        IF l \in keys THEN LeecherReset ELSE @[l]],
                        !.state = "SyncingAudit",
                        !.catchup_till = [l \in LedgerIds |-> NoTill]]
    IN leecher_start(s1, AUDIT_LEDGER_ID, request_ledger_statuses, NoTill)

start(request_ledger_statuses) ==
    /\ {AUDIT_LEDGER_ID, POOL_LEDGER_ID} \subseteq Registered
    /\ Assign(start_body([self EXCEPT !.started = <<>>, !.accepted = {},
                                      !.derived = {}, !.ncc = 0,
                                      !.audit_size = None],
                         request_ledger_statuses, Registered))
    /\ last' = [op |-> "start", ledger_id |-> None,
                flag |-> request_ledger_statuses, raised |-> FALSE]
    /\ halted' = FALSE
    /\ UNCHANGED <<_leechers, provider, votes, new_view>>

\* A LedgerCatchupComplete of ledger msg.ledger_id arrives on the leecher
\* outbox; the leecher that sent it has finished.  The provider is read only
\* by _on_audit_synced.  The audit ledger changes only while the Audit leecher
\* runs: a completion of the running Audit leecher finds any audit ledger, and
\* an Audit completion that arrives in SyncingAudit after that (the derivation
\* raised, the ledger is as it was) repeats that derivation on the same
\* ledger: it raises at the same item after writing the same entries again.
\* found is what the running Audit leecher may have left in the provider.
complete(msg, found) ==
    \E p \in IF _state = "SyncingAudit" /\ msg.ledger_id = AUDIT_LEDGER_ID
                /\ leecher[AUDIT_LEDGER_ID].active
             THEN found ELSE {NoProvider} :
        LET s0 == [self EXCEPT !.leecher[msg.ledger_id].active = FALSE]
            again == /\ _state = "SyncingAudit"
                     /\ msg.ledger_id = AUDIT_LEDGER_ID
                     /\ ~leecher[AUDIT_LEDGER_ID].active
            s1 == IF again THEN [s0 EXCEPT !.raised = TRUE]
                  ELSE dispatch(s0, msg, p, _leechers)
        IN /\ Assign(s1)
           /\ last' = [op |-> "complete", ledger_id |-> msg.ledger_id,
                       flag |-> FALSE, raised |-> s1.raised]
           /\ halted' = (halted \/ s1.raised)
           /\ UNCHANGED <<_leechers, provider, votes, new_view>>

_on_ledger_catchup_complete(msg) == complete(msg, Providers)

Next ==
    \/ \E ledger_id \in LedgerIds : register_ledger(ledger_id)
    \/ \E request_ledger_statuses \in BOOLEAN : start(request_ledger_statuses)
    \/ \E ledger_id \in LedgerIds :
          _on_ledger_catchup_complete([ledger_id |-> ledger_id])

Spec == Init /\ [][Next]_vars

(***************************************************************************)
(* The state machine with leechers that finish: a leecher that has been    *)
(* started delivers its LedgerCatchupComplete, and start() is called only  *)
(* finitely often.                                                         *)
(***************************************************************************)
\* what the Audit leecher may have left in the provider: no audit
\* transaction, or one that lists the Pool ledger only
LiveProviders ==
    {p \in Providers :
        Len(p.audit) > 0 => Keys(p.audit[1].ledgerSize) \subseteq {POOL_LEDGER_ID}}

\* the leecher of an active ledger finishes
DeliverActive ==
    \E ledger_id \in Active : complete([ledger_id |-> ledger_id], LiveProviders)

NextLive ==
    \/ \E ledger_id \in LedgerIds : register_ledger(ledger_id)
    \/ \E request_ledger_statuses \in BOOLEAN : start(request_ledger_statuses)
    \/ \E ledger_id \in LedgerIds :
          complete([ledger_id |-> ledger_id], LiveProviders)

NoStart == last'.op # "start"

LiveSpec ==
    /\ Init
    /\ [][NextLive]_vars
    /\ WF_vars(DeliverActive)
    /\ <>[][NoStart]_vars

(***************************************************************************)
(* Target derivation on its own: the state machine has been started, and   *)
(* the Audit leecher completes on the provider drawn initially.            *)
(***************************************************************************)
InitCalc ==
    /\ provider \in Providers \/ IsDeepProvider(provider)
    /\ _leechers = <<POOL_LEDGER_ID, 1, AUDIT_LEDGER_ID>>
    /\ leecher = [l \in LedgerIds |->
                    IF l = AUDIT_LEDGER_ID
                    THEN [active |-> TRUE, request_ledger_statuses |-> TRUE,
                          till |-> NoTill]
                    ELSE LeecherReset]
    /\ _state = "SyncingAudit"
    /\ _catchup_till = [l \in LedgerIds |-> NoTill]
    /\ _current_ledger = None
    /\ started = <<[ledger_id |-> AUDIT_LEDGER_ID, request_ledger_statuses |-> TRUE,
                    till |-> NoTill]>>
    /\ accepted = {}
    /\ derived = {}
    /\ ncc = 0
    /\ halted = FALSE
    /\ audit_size = None
    /\ last = [op |-> "start", ledger_id |-> None, flag |-> TRUE, raised |-> FALSE]
    /\ votes = <<>>
    /\ new_view = NoNewView

NextCalc == complete([ledger_id |-> AUDIT_LEDGER_ID], {provider})

CalcSpec == InitCalc /\ [][NextCalc]_vars

(***************************************************************************)
(* New-view construction on its own: calc_batches is applied to a          *)
(* checkpoint and a strong quorum of synthetic votes.                      *)
(***************************************************************************)
LeecherIdle ==
    /\ _leechers = <<>>
    /\ leecher = [l \in LedgerIds |-> LeecherReset]
    /\ _state = "Idle"
    /\ _catchup_till = [l \in LedgerIds |-> NoTill]
    /\ _current_ledger = None
    /\ started = <<>>
    /\ accepted = {}
    /\ derived = {}
    /\ ncc = 0
    /\ halted = FALSE
    /\ audit_size = None
    /\ last = [op |-> "init", ledger_id |-> None, flag |-> FALSE, raised |-> FALSE]
    /\ provider = NoProvider

InitNewView ==
    /\ LeecherIdle
    /\ votes \in [1..Strong -> SyntheticVotes]
    /\ \E cp \in Checkpoints : new_view = [NoNewView EXCEPT !.checkpoint = cp]

build_new_view ==
    /\ ~new_view.done
    /\ new_view' = [new_view EXCEPT
                       !.done = TRUE,
                       !.batches = calc_batches(new_view.checkpoint, votes)]
    /\ UNCHANGED <<leecher_vars, votes>>

NextNewView == build_new_view

NewViewSpec == InitNewView /\ [][NextNewView]_vars

(***************************************************************************)
(* test_new_view_combinations: a sample of strong-quorum size of the votes *)
(* of a pool                                                               *)
(***************************************************************************)
InitPool ==
    /\ LeecherIdle
    /\ votes \in [1..Strong -> PoolVotes]
    /\ new_view = NoNewView

test_new_view_combinations ==
    /\ ~new_view.done
    /\ LET cp == calc_checkpoint(votes)
           batches == IF cp = NoCheckpoint THEN <<>> ELSE calc_batches(cp, votes)
           r == calc_committed(votes)
           committed == SelectSeq(r.committed, LAMBDA c : c.pp_seq_no > cp.seqNoEnd)
       IN new_view' = [done |-> TRUE, checkpoint |-> cp, batches |-> batches,
                       committed |-> committed, assert_failed |-> r.assert_failed]
    /\ UNCHANGED <<leecher_vars, votes>>

NextPool == test_new_view_combinations

PoolSpec == InitPool /\ [][NextPool]_vars

(***************************************************************************)
(* Properties of the catch-up state machine                                *)
(***************************************************************************)
\* ledger ids of the leecher.start calls since the last start(), in order
StartedIds == [i \in 1..Len(started) |-> started[i].ledger_id]

\* the registered ledgers but Audit and Pool, in registration order
OtherLedgers ==
    SelectSeq(_leechers, LAMBDA x : x # AUDIT_LEDGER_ID /\ x # POOL_LEDGER_ID)

IsPrefix(a, b) == Len(a) <= Len(b) /\ \A i \in 1..Len(a) : a[i] = b[i]

HasTill(l) == _catchup_till[l] # NoTill

\* C1: in every round, the leecher of a non-Audit ledger is started only
\* after an Audit completion was accepted in that round, and the leecher of a
\* ledger other than Audit and Pool only after a Pool completion was accepted
\* in that round, whatever the registration order.
C1_OrderingInvariant ==
    \A i \in 1..Len(started) :
        /\ started[i].ledger_id # AUDIT_LEDGER_ID => AUDIT_LEDGER_ID \in accepted
        /\ started[i].ledger_id \notin {AUDIT_LEDGER_ID, POOL_LEDGER_ID}
              => POOL_LEDGER_ID \in accepted

\* an other ledger, registered before Audit and Pool, has been started
C1_Witness ==
    /\ Len(_leechers) = MaxLedgerId + 1
    /\ _leechers[1] \notin {AUDIT_LEDGER_ID, POOL_LEDGER_ID}
    /\ _leechers[Len(_leechers)] = AUDIT_LEDGER_ID
    /\ \E i \in 1..Len(started) : started[i].ledger_id = _leechers[1]

\* C2: every round, also one begun by a start() in the middle of another,
\* starts Audit, Pool and then the other ledgers from the first registered
\* one on, and has started every registered ledger when it ends at Idle.
C2_FreshRound ==
    /\ IsPrefix(StartedIds, <<AUDIT_LEDGER_ID, POOL_LEDGER_ID>> \o OtherLedgers)
    /\ (_state = "Idle" /\ ncc = 1
          => StartedIds = <<AUDIT_LEDGER_ID, POOL_LEDGER_ID>> \o OtherLedgers)

\* C3: when NodeCatchupComplete has been emitted, every registered ledger
\* was started and had its completion accepted since the last start(), and
\* it is emitted at most once per start().
C3_CompleteMeansAllSynced ==
    /\ ncc <= 1
    /\ ncc >= 1 =>
          \A l \in Registered :
              /\ l \in accepted
              /\ \E i \in 1..Len(started) : started[i].ledger_id = l

\* C4: right after start() _catchup_till is empty, and every entry found in
\* it later was written by a target derivation of the current round.
C4_NoResidualTill ==
    /\ last.op = "start" => \A l \in LedgerIds : ~HasTill(l)
    /\ \A l \in LedgerIds : HasTill(l) => l \in derived

\* a round begun while another was syncing the other ledgers has targets
C4_Witness ==
    /\ _state = "SyncingPool"
    /\ _current_ledger # None
    /\ \E l \in LedgerIds : HasTill(l)

\* the ledger id is not the one the current state expects
OutOfState(ledger_id) ==
    \/ _state = "SyncingAudit" /\ ledger_id # AUDIT_LEDGER_ID
    \/ _state = "SyncingPool" /\ ledger_id # POOL_LEDGER_ID
    \/ _state = "SyncingOthers" /\ ledger_id # _current_ledger
    \/ _state = "Idle"

\* C5: a LedgerCatchupComplete whose ledger is not the one the current state
\* expects leaves _state, _catchup_till and _current_ledger unchanged, starts
\* no leecher and emits no NodeCatchupComplete.
C5_OutOfStateInert ==
    [][(last'.op = "complete" /\ OutOfState(last'.ledger_id))
         => UNCHANGED <<_state, _catchup_till, _current_ledger, started, ncc>>]_vars

\* a Pool completion was delivered while still in SyncingAudit
C5_Witness ==
    /\ last.op = "complete"
    /\ last.ledger_id = POOL_LEDGER_ID
    /\ _state = "SyncingAudit"
    /\ ~last.raised


(***************************************************************************)
(* Properties of target derivation (CalcSpec)                              *)
(***************************************************************************)
\* the last committed audit transaction of the provider
LastTxn == provider.audit[Len(provider.audit)]

\* the items of its ledgerSize map
Items == IF Len(provider.audit) = 0 THEN {} ELSE 1..Len(LastTxn.ledgerSize)

\* target derivation has been run on the provider
Derived == last.op = "complete" /\ AUDIT_LEDGER_ID \in accepted

\* txn['ledgerSize'].get(ledger_id)
SizeIn(txn, ledger_id) ==
    IF \E i \in 1..Len(txn.ledgerSize) : txn.ledgerSize[i][1] = ledger_id
    THEN txn.ledgerSize[CHOOSE i \in 1..Len(txn.ledgerSize) :
                           txn.ledgerSize[i][1] = ledger_id][2]
    ELSE None

\* C6: when ledgerRoot[L] of the last audit transaction is a back-reference
\* k and the transaction at audit_ledger.size - k records a ledgerSize[L]
\* other than final_size, derivation raises and records no entry for L.
C6_BackRefSizeMismatchRaises ==
    Derived =>
      \A i \in Items :
        LET L == LastTxn.ledgerSize[i][1]
            final_size == LastTxn.ledgerSize[i][2]
            root == LastTxn.ledgerRoot[L]
            seq_no == Len(provider.audit) - root.v
        IN (/\ root.t = "int"
            /\ seq_no \in 1..Len(provider.audit)
            /\ SizeIn(provider.audit[seq_no], L) \notin {None, final_size})
           => last.raised /\ ~HasTill(L)

\* C7: for every ledger L of the last audit transaction's ledgerSize map
\* whose ledgerRoot[L] is a back-reference k: when ledgerRoot[L] of the
\* transaction at audit_ledger.size - k is a literal hash, the entry recorded
\* for L has that hash as final_hash (and is recorded unless derivation
\* raised); when that transaction is missing or its ledgerRoot[L] is absent
\* or a back-reference, derivation raises and records no entry for L.
C7_BackRefResolution ==
    Derived =>
      \A i \in Items :
        LET L == LastTxn.ledgerSize[i][1]
            root == LastTxn.ledgerRoot[L]
            seq_no == Len(provider.audit) - root.v
            literal == /\ seq_no \in 1..Len(provider.audit)
                       /\ provider.audit[seq_no].ledgerRoot[L].t = "str"
        IN root.t = "int" =>
             IF literal
             THEN /\ HasTill(L) =>
                       _catchup_till[L].final_hash
                         = provider.audit[seq_no].ledgerRoot[L]
                  /\ ~last.raised => HasTill(L)
             ELSE last.raised /\ ~HasTill(L)

\* audit ledger of size 3, transaction #3 refers back by k = 2, transaction
\* #1 holds a literal hash that transaction #2 does not: the entry has it
C7_Witness ==
    /\ Derived
    /\ Len(provider.audit) = 3
    /\ \E i \in Items :
          LET L == LastTxn.ledgerSize[i][1]
          IN /\ LastTxn.ledgerRoot[L] = IntV(2)
             /\ provider.audit[1].ledgerRoot[L] = StrV(2)
             /\ provider.audit[2].ledgerRoot[L] = StrV(1)
             /\ HasTill(L)
             /\ _catchup_till[L].final_hash = StrV(2)

\* C8: every entry of _catchup_till has start_size <= final_size.
C8_StartSizeAtMostFinalSize ==
    \A l \in LedgerIds :
        HasTill(l) => _catchup_till[l].start_size <= _catchup_till[l].final_size

(***************************************************************************)
(* Properties of new-view construction (NewViewSpec, PoolSpec)             *)
(***************************************************************************)
\* b is in the preprepared sequence of a strong quorum of the votes and in
\* the prepared set of a strong quorum of the votes
HasPrepareQuorum(b) ==
    /\ Cardinality({i \in 1..Len(votes) :
                       \E n \in 1..Len(votes[i].preprepared) :
                           votes[i].preprepared[n] = b}) >= Strong
    /\ Cardinality({i \in 1..Len(votes) : b \in votes[i].prepared}) >= Strong

\* every batch a vote could hold at pp_seq_no
BatchesAt(pp_seq_no) == {BatchID(0, 0, pp_seq_no, d) : d \in 1..NumDigests}

\* C9: calc_batches returns the batches that have prepare quorum at
\* checkpoint.seqNoEnd + 1, + 2, ... in that order, without a gap, and stops
\* before the first pp_seq_no k at which no batch has it (also when several
\* batches are at k and none reaches the quorum): nothing at or beyond k.
C9_NewViewSafety ==
    new_view.done =>
      LET end == new_view.checkpoint.seqNoEnd
          batches == new_view.batches
      IN /\ \A i \in 1..Len(batches) :
               /\ batches[i].pp_seq_no = end + i
               /\ HasPrepareQuorum(batches[i])
         /\ \A b \in BatchesAt(end + Len(batches) + 1) : ~HasPrepareQuorum(b)

\* pp_seq_no 1 has prepare quorum and is returned; at pp_seq_no 2 the votes
\* hold two distinct batches, none with quorum, and nothing is returned
C9_Witness ==
    /\ new_view.done
    /\ new_view.checkpoint.seqNoEnd = 0
    /\ Len(new_view.batches) = 1
    /\ \E i, j \in 1..Len(votes) :
          \E b1 \in Range(votes[i].preprepared), b2 \in Range(votes[j].preprepared) :
              b1.pp_seq_no = 2 /\ b2.pp_seq_no = 2 /\ b1 # b2

Listed(ledger_id) ==
    /\ Len(provider.audit) > 0
    /\ SizeIn(LastTxn, ledger_id) # None

\* C12: an Audit completion accepted in SyncingAudit whose target derivation
\* does not raise moves the state to SyncingPool and starts the Pool leecher
\* and nothing else; when the last audit transaction lists the Pool ledger
\* the call passes request_ledger_statuses = False and the CatchupTill
\* computed for Pool (its final_size, viewNo and ppSeqNo those of the
\* transaction), otherwise request_ledger_statuses = True and no target.
C12_AuditSyncedStartsPool ==
    (Derived /\ ~last.raised) =>
      /\ _state = "SyncingPool"
      /\ Len(started) = 2
      /\ started[2].ledger_id = POOL_LEDGER_ID
      /\ Active = {POOL_LEDGER_ID}
      /\ IF Listed(POOL_LEDGER_ID)
         THEN /\ ~started[2].request_ledger_statuses
              /\ started[2].till # NoTill
              /\ started[2].till = _catchup_till[POOL_LEDGER_ID]
              /\ started[2].till.final_size = SizeIn(LastTxn, POOL_LEDGER_ID)
              /\ started[2].till.start_size = provider.size[POOL_LEDGER_ID]
              /\ started[2].till.view_no = LastTxn.viewNo
              /\ started[2].till.pp_seq_no = LastTxn.ppSeqNo
         ELSE /\ started[2].request_ledger_statuses
              /\ started[2].till = NoTill
              /\ ~HasTill(POOL_LEDGER_ID)

\* the Pool leecher was started with the target computed from a listed size
C12_Witness ==
    /\ Derived
    /\ ~last.raised
    /\ Listed(POOL_LEDGER_ID)
    /\ started[2].till.final_size = 1
    /\ ~started[2].request_ledger_statuses

(***************************************************************************)
(* Traversal of the other ledgers (Spec)                                   *)
(***************************************************************************)
\* ledger ids of the leecher.start calls of the round after Audit and Pool
OthersStarted == SubSeq(StartedIds, 3, Len(StartedIds))

\* C13: in every round, once the Pool completion is accepted the other
\* ledgers are started in registration order from the first one on, each
\* once, the next one only when the completion of the one before it was
\* accepted; the state is Idle with one NodeCatchupComplete exactly when all
\* of them (or none, if none is registered) were started and completed, and
\* SyncingOthers with no NodeCatchupComplete until then.
C13_OthersInRegistrationOrder ==
    POOL_LEDGER_ID \in accepted =>
      /\ IsPrefix(OthersStarted, OtherLedgers)
      /\ \A i \in 1..(Len(OthersStarted) - 1) : OthersStarted[i] \in accepted
      /\ IF /\ OthersStarted = OtherLedgers
            /\ \A i \in 1..Len(OtherLedgers) : OtherLedgers[i] \in accepted
         THEN _state = "Idle" /\ ncc = 1
         ELSE /\ _state = "SyncingOthers"
              /\ ncc = 0
              /\ Len(OthersStarted) >= 1
              /\ OthersStarted[Len(OthersStarted)] \notin accepted
              /\ _current_ledger = OthersStarted[Len(OthersStarted)]

(***************************************************************************)
(* A round on an empty audit ledger (Spec)                                 *)
(***************************************************************************)
\* the Audit completion of the round found no last committed transaction
EmptyAudit == audit_size = 0

\* C14, as the code has it: when the audit ledger has no last committed
\* transaction at the time Audit completes, no CatchupTill is computed, and
\* the round goes on: Pool and every other ledger it starts are started with
\* request_ledger_statuses = True and no target; after Pool the state is
\* SyncingOthers with an other ledger started, and Idle is reached only when
\* every ledger started in the round has completed.
C14_EmptyAuditSyncsByStatuses ==
    EmptyAudit =>
      /\ derived = {}
      /\ \A l \in LedgerIds : ~HasTill(l)
      /\ \A i \in 2..Len(started) :
            started[i].request_ledger_statuses /\ started[i].till = NoTill
      /\ (POOL_LEDGER_ID \in accepted /\ _state = "SyncingOthers")
            => (Len(started) >= 3 /\ started[Len(started)].ledger_id = _current_ledger)
      /\ (_state = "Idle" /\ ncc = 1)
            => \A i \in 1..Len(started) : started[i].ledger_id \in accepted

\* after an empty audit ledger and Pool, an other ledger is being synced
C14_Witness ==
    /\ EmptyAudit
    /\ POOL_LEDGER_ID \in accepted
    /\ _state = "SyncingOthers"
    /\ Len(started) = 3
    /\ started[3].request_ledger_statuses

\* C14, as stated: when the audit ledger has no last committed transaction
\* at the time Audit completes, the round ends at Idle with
\* NodeCatchupComplete once Pool completes and no other ledger is started.
C14_EmptyAuditEndsAfterPool ==
    (EmptyAudit /\ POOL_LEDGER_ID \in accepted) =>
      /\ _state = "Idle"
      /\ ncc = 1
      /\ Len(started) = 2

(***************************************************************************)
(* A round halted by target derivation (Spec)                              *)
(***************************************************************************)
\* C15: once _calc_catchup_till has raised in a round, and until the next
\* start(), the state is SyncingAudit, the only leecher.start call of the
\* round is the one of Audit, no leecher is active and no
\* NodeCatchupComplete has been emitted, whatever completions arrive.
C15_RaiseHaltsRound ==
    halted =>
      /\ _state = "SyncingAudit"
      /\ StartedIds = <<AUDIT_LEDGER_ID>>
      /\ Active = {}
      /\ ncc = 0

\* derivation raised after recording an entry, and a Pool completion that
\* arrived afterwards changed nothing
C15_Witness ==
    /\ halted
    /\ last.op = "complete"
    /\ last.ledger_id = POOL_LEDGER_ID
    /\ \E l \in LedgerIds : HasTill(l)

(***************************************************************************)
(* Absent and literal roots (CalcSpec)                                     *)
(***************************************************************************)
\* C16: for every ledger L of the last audit transaction's ledgerSize map:
\* when ledgerRoot[L] is absent and the size of the local ledger differs from
\* final_size, derivation raises and records no entry for L; when it is
\* absent and the sizes agree, the entry recorded for L has start_size =
\* final_size and final_hash the merkle root of the local ledger over
\* [0, final_size), None when final_size is 0; when it is a literal hash the
\* entry has that hash.  The entry is recorded unless derivation raised.
C16_AbsentAndLiteralRoots ==
    Derived =>
      \A i \in Items :
        LET L == LastTxn.ledgerSize[i][1]
            final_size == LastTxn.ledgerSize[i][2]
            root == LastTxn.ledgerRoot[L]
            local == IF L = AUDIT_LEDGER_ID THEN Len(provider.audit)
                     ELSE provider.size[L]
        IN /\ (root.t = "none" /\ final_size # local)
                 => (last.raised /\ ~HasTill(L))
           /\ (root.t = "none" /\ final_size = local)
                 => /\ ~last.raised => HasTill(L)
                    /\ HasTill(L) =>
                         /\ _catchup_till[L].start_size = final_size
                         /\ _catchup_till[L].final_size = final_size
                         /\ _catchup_till[L].final_hash =
                              IF final_size = 0 THEN NoneV
                              ELSE merkle_tree_hash(L, final_size)
           /\ root.t = "str"
                 => /\ ~last.raised => HasTill(L)
                    /\ HasTill(L) => _catchup_till[L].final_hash = root

\* an entry whose hash was computed locally, and one with no hash
C16_Witness ==
    /\ Derived
    /\ ~last.raised
    /\ \E i, j \in Items :
          LET L == LastTxn.ledgerSize[i][1]
              K == LastTxn.ledgerSize[j][1]
          IN /\ LastTxn.ledgerRoot[L] = NoneV
             /\ LastTxn.ledgerSize[i][2] = 1
             /\ _catchup_till[L].final_hash = merkle_tree_hash(L, 1)
             /\ LastTxn.ledgerRoot[K] = NoneV
             /\ LastTxn.ledgerSize[j][2] = 0
             /\ HasTill(K)
             /\ _catchup_till[K].final_hash = NoneV

(***************************************************************************)
(* start() (Spec)                                                          *)
(***************************************************************************)
\* C17: right after start(request_ledger_statuses), whatever the state it
\* was called in, the state is SyncingAudit, _catchup_till is empty, every
\* registered leecher but the one of Audit is as reset() leaves it, and the
\* only leecher.start call is the one of Audit, with the caller's
\* request_ledger_statuses and no target.
C17_StartResetsAndStartsAudit ==
    last.op = "start" =>
      /\ _state = "SyncingAudit"
      /\ \A l \in LedgerIds : ~HasTill(l)
      /\ \A l \in Registered \ {AUDIT_LEDGER_ID} : leecher[l] = LeecherReset
      /\ started = <<[ledger_id |-> AUDIT_LEDGER_ID,
                      request_ledger_statuses |-> last.flag,
                      till |-> NoTill]>>
      /\ leecher[AUDIT_LEDGER_ID] =
            [active |-> TRUE, request_ledger_statuses |-> last.flag, till |-> NoTill]
      /\ Active = {AUDIT_LEDGER_ID}

\* start(False) was called while an other ledger was being synced
C17_Witness ==
    /\ last.op = "start"
    /\ ~last.flag
    /\ _current_ledger # None

(***************************************************************************)
(* One ledger at a time (Spec)                                             *)
(***************************************************************************)
\* C18: in every reachable state at most one leecher is active; in
\* SyncingAudit it is the one of Audit (none once derivation has raised), in
\* SyncingPool the one of Pool, in SyncingOthers the one of _current_ledger,
\* and none is active in Idle.
C18_OneLedgerAtATime ==
    /\ Cardinality(Active) <= 1
    /\ _state = "SyncingAudit"
          => Active = (IF halted THEN {} ELSE {AUDIT_LEDGER_ID})
    /\ _state = "SyncingPool" => Active = {POOL_LEDGER_ID}
    /\ _state = "SyncingOthers" => Active = {_current_ledger}
    /\ _state = "Idle" => Active = {}

\* the second of the other ledgers is the one being synced, after a
\* completion of another ledger was discarded
C18_Witness ==
    /\ _state = "SyncingOthers"
    /\ Len(OthersStarted) = 2
    /\ last.op = "complete"
    /\ last.ledger_id # OthersStarted[1]
    /\ Active = {OthersStarted[2]}

(***************************************************************************)
(* Consumption of the targets (Spec)                                       *)
(***************************************************************************)
\* the leecher.start calls of the round that passed a target for ledger l
CallsWithTill(l) ==
    {i \in 1..Len(started) : started[i].ledger_id = l /\ started[i].till # NoTill}

\* C19: a target passed to a leecher is the entry recorded for its ledger,
\* no ledger is passed a target twice in a round, and when the round has
\* reached Idle every recorded entry (the one of the Audit ledger included)
\* was passed to exactly one leecher.start call of its ledger.
C19_TillConsumedOnce ==
    /\ \A l \in LedgerIds :
          /\ Cardinality(CallsWithTill(l)) <= 1
          /\ \A i \in CallsWithTill(l) : started[i].till = _catchup_till[l]
    /\ (_state = "Idle" /\ ncc = 1) =>
          \A l \in LedgerIds : HasTill(l) => Cardinality(CallsWithTill(l)) = 1

(***************************************************************************)
(* Liveness (LiveSpec)                                                     *)
(***************************************************************************)
\* C20: when every started leecher delivers its completion and start() is
\* called only finitely often, a round that is under way is followed by
\* Idle with NodeCatchupComplete emitted, unless target derivation raises:
\* the machine does not stay in SyncingAudit, SyncingPool or SyncingOthers
\* for ever.
C20_EventuallyIdle ==
    (_state # "Idle") ~> ((_state = "Idle" /\ ncc = 1) \/ halted)

\* a round begun by a start() in the middle of another has reached Idle
\* after the traversal of an other ledger
C20_Witness ==
    /\ _state = "Idle"
    /\ ncc = 1
    /\ Len(OthersStarted) >= 1
    /\ Cardinality(Registered) = MaxLedgerId + 1

====
